---- MODULE Spec2Model ----
(***************************************************************************)
(* Model of vm_images/launcher/launcher.py: the file-based TDX launcher.    *)
(* main() is a single sequential process; pc is its position.  Every file   *)
(* of the share is kept as the sequence of the writes made to it, so that   *)
(* "written at most once" and "last value written" are state predicates.    *)
(* The environment (mount state, share contents, probe and TSM outcomes,    *)
(* the remote authority's answer) is chosen nondeterministically at the     *)
(* step that observes it.                                                   *)
(***************************************************************************)
EXTENDS Integers, Sequences, FiniteSets, TLC

VARIABLES
    pc,            \* position of main()
    attempt,       \* loop index of the mount-wait loop (launcher.py:391)
    mounted,       \* environment: /mnt/share exists and is a mount point
    manualAt,      \* attempts at which the manual mount was invoked
    mountChecks,   \* number of evaluations of exists()/is_mount()
    configPresent, \* environment: /mnt/share/config.json exists
    config,        \* parsed config.json (NoConfig before it is read)
    shareCompose,  \* environment: /mnt/share/docker-compose.yml exists
    composeRuns,   \* number of docker compose invocations
    composeRc,     \* return codes of the docker compose invocations, in order
    workloadCompose, \* bytes of WORKLOAD_DIR/docker-compose.yml (NoFile: absent)
    i,             \* loop index of the health loop (launcher.py:146)
    probeOk,       \* a health probe answered with response.ok
    health_status, \* main()'s health_status["status"] (NoHealth: unassigned)
    quoteGens,     \* number of calls of generate_tdx_quote
    quote,         \* length in bytes of the quote read from outblob
    remoteCalls,   \* number of calls of call_intel_trust_authority
    ita_response,  \* outcome of call_intel_trust_authority (NoResponse: no call)
    attestation,   \* the value returned by get_tdx_attestation
    pending,       \* the exception being handled by main()'s except clause
    statusFile,    \* writes made to /mnt/share/status, in order
    errorFile,     \* writes made to /mnt/share/error.log, in order
    attestationFile, \* writes made to /mnt/share/attestation.json, in order
    errorLogged,   \* messages passed to logger.error
    exitCode,      \* <<status>> once the process has exited
    fn,            \* a function called on its own: its name, and where it is
    arg,           \* its argument
    ret,           \* its return value
    tsm            \* /sys/kernel/config/tsm/report as that call sees it

mountVars == <<attempt, mounted, manualAt, mountChecks>>
workVars == <<shareCompose, composeRuns, composeRc, workloadCompose>>
callVars == <<fn, arg, ret, tsm>>
healthVars == <<i, probeOk, health_status>>
attVars == <<quoteGens, quote, remoteCalls, ita_response, attestation>>
fileVars == <<statusFile, errorFile, attestationFile>>

mainVars == <<pc, mountVars, configPresent, config, workVars, healthVars,
              attVars, pending, fileVars, errorLogged, exitCode>>

vars == <<mainVars, callVars>>

----------------------------------------------------------------------------
(* Program constants *)

MountAttempts == 60
ManualMountEvery == 3
HealthAttempts == 60
MinQuoteSize == 584

----------------------------------------------------------------------------
(* Values *)

Absent == "<absent>"        \* a key missing from config.json / a result
Running == <<>>                \* exitCode while the process is alive

\* config.json as the host may write it: each key absent or one of a few values
Configs ==
    [mode : {Absent, "measure", "persistent"},
     health_endpoint : {Absent, "", "/ready"},
     health_port : {Absent, "9000"},
     health_url : {Absent, "http://w/h"},
     intel_api_key : {Absent, "", "key"}]

NoConfig == [kind |-> "none"]
Malformed == [kind |-> "malformed"]   \* not JSON, or JSON that is no object

\* dict.get(key, default)
Get(cfg, key, default) == IF cfg[key] = Absent THEN default ELSE cfg[key]

\* truth value of dict.get(key): None and "" are false
Truthy(cfg, key) == cfg[key] # Absent /\ cfg[key] # ""

NoUrl == [port |-> "", endpoint |-> ""]
NoHealth == "<unassigned>"
NoAttestation == [kind |-> "none"]
NoException == [kind |-> "none", url |-> NoUrl]
\* the "token" member of the authority's JSON answer: missing, a string of
\* dot-separated segments whose middle segment carries a payload, or a number
NoToken == [type |-> "none", empty |-> TRUE, segs |-> 0, payload |-> ""]
EmptyToken == [type |-> "str", empty |-> TRUE, segs |-> 1, payload |-> ""]
IntToken == [type |-> "int", empty |-> FALSE, segs |-> 0, payload |-> ""]
Payloads == {"tdx", "notdx", "list", "garbage"}
StrTokens == [type : {"str"}, empty : {FALSE}, segs : {2, 3}, payload : Payloads]
Tokens == {NoToken, EmptyToken, IntToken} \cup StrTokens

NoResponse == [kind |-> "none", token |-> NoToken]
Responses == {[kind |-> "error", token |-> NoToken]}
             \cup [kind : {"json"}, token : Tokens]

QuoteLens == {0, MinQuoteSize - 1, MinQuoteSize, MinQuoteSize + 16}
NoQuote == [read |-> FALSE, len |-> 0]

\* docker-compose.yml as a byte string; a workload directory left by an
\* earlier boot may hold one before setup_workload runs
NoFile == [exists |-> FALSE, bytes |-> <<>>]
File(b) == [exists |-> TRUE, bytes |-> b]
ComposeFiles == {File(<<118, 49>>), File(<<118, 50, 10>>)}
StaleCompose == File(<<111, 108, 100>>)

Last(s) == s[Len(s)]

\* no function is being called on its own
NoCall ==
    /\ fn = [name |-> "none", at |-> "none"]
    /\ arg = <<>>
    /\ ret = <<>>
    /\ tsm = <<>>

----------------------------------------------------------------------------
Init ==
    /\ pc = "mount_loop"
    /\ attempt = 0
    /\ mounted \in BOOLEAN
    /\ manualAt = {}
    /\ mountChecks = 0
    /\ configPresent \in BOOLEAN
    /\ config = NoConfig
    /\ shareCompose = FALSE
    /\ composeRuns = 0
    /\ composeRc = <<>>
    /\ workloadCompose \in {NoFile, StaleCompose}
    /\ i = 0
    /\ probeOk = FALSE
    /\ health_status = NoHealth
    /\ quoteGens = 0
    /\ quote = NoQuote
    /\ remoteCalls = 0
    /\ ita_response = NoResponse
    /\ attestation = NoAttestation
    /\ pending = NoException
    /\ statusFile = <<>>
    /\ errorFile = <<>>
    /\ attestationFile = <<>>
    /\ errorLogged = {}
    /\ exitCode = Running
    /\ NoCall

----------------------------------------------------------------------------
(* Helpers *)

\* launcher.py:419
Mode(cfg) == Get(cfg, "mode", "measure")

\* launcher.py:141-143: the probed URL, as (port, endpoint)
HealthUrl(cfg) ==
    [port |-> Get(cfg, "health_port", "8080"),
     endpoint |-> Get(cfg, "health_endpoint", "/health")]

\* mutant of ManualMountDue: the first attempt mounts too
ManualMountDueFromStart(a) == a % ManualMountEvery = 0

\* launcher.py:398
ManualMountDue(a) == a > 0 /\ a % ManualMountEvery = 0

Exception(k) == [kind |-> k, url |-> NoUrl]

\* an exception reaching main()'s except clause (launcher.py:470)
Raise(exc) ==
    /\ pending' = exc
    /\ pc' = "write_error"

----------------------------------------------------------------------------
(* Environment *)

\* the 9p share gets mounted at boot, some time after the launcher started
\* (during one of the sleeps of the loop); it is never unmounted again
HostMounts ==
    /\ pc \in {"mount_loop", "mount_final"}
    /\ ~mounted
    /\ mounted' = TRUE
    /\ UNCHANGED <<pc, attempt, manualAt, mountChecks, configPresent, config,
                   workVars, healthVars, attVars, pending, fileVars,
                   errorLogged, exitCode,
                   callVars>>

\* the host writes config.json
HostWritesConfig ==
    /\ exitCode = Running
    /\ ~configPresent
    /\ configPresent' = TRUE
    /\ UNCHANGED <<pc, mountVars, config, workVars, healthVars, attVars,
                   pending, fileVars, errorLogged, exitCode,
                   callVars>>

----------------------------------------------------------------------------
(* main(): mount wait, launcher.py:391-413 *)

\* one iteration of the for loop
MountLoop ==
    /\ pc = "mount_loop"
    /\ attempt < MountAttempts
    /\ mountChecks' = mountChecks + 1
    /\ IF mounted
         THEN /\ pc' = "mount_final"                       \* break
              /\ UNCHANGED <<attempt, mounted, manualAt>>
         ELSE /\ IF ManualMountDue(attempt)
                   THEN /\ manualAt' = manualAt \cup {attempt}
                        /\ mounted' \in BOOLEAN            \* mount's returncode
                   ELSE UNCHANGED <<manualAt, mounted>>
              /\ attempt' = attempt + 1
              /\ pc' = IF attempt + 1 < MountAttempts
                         THEN "mount_loop" ELSE "mount_final"
    /\ UNCHANGED <<configPresent, config, workVars, healthVars, attVars,
                   pending, fileVars, errorLogged, exitCode,
                   callVars>>

\* the check after the loop
MountFinal ==
    /\ pc = "mount_final"
    /\ mountChecks' = IF mounted THEN 0 ELSE mountChecks + 1
    /\ IF ~mounted
         THEN /\ errorLogged' = errorLogged \cup {"Share directory not available after 120s"}
              /\ exitCode' = <<1>>
              /\ pc' = "exit"
              /\ UNCHANGED <<attempt, manualAt>>
         ELSE /\ pc' = "wait_config"
              \* the loop is over: its index is never read again, and the
              \* record of the loop is dropped with it
              /\ attempt' = 0
              /\ manualAt' = {}
              /\ UNCHANGED <<errorLogged, exitCode>>
    /\ UNCHANGED <<mounted, configPresent, config, workVars, healthVars,
                   attVars, pending, fileVars,
                   callVars>>

----------------------------------------------------------------------------
(* wait_for_config, launcher.py:60-69 *)

WaitForConfig ==
    /\ pc = "wait_config"
    /\ configPresent                     \* while not CONFIG_FILE.exists(): sleep
    /\ \E c \in Configs \cup {Malformed} :
         IF c = Malformed
           THEN /\ Raise(Exception("ConfigMalformed"))
                /\ UNCHANGED config
           ELSE /\ config' = c
                /\ pc' = "check_compose"
                /\ UNCHANGED pending
    /\ UNCHANGED <<mountVars, configPresent, workVars, healthVars, attVars,
                   fileVars, errorLogged, exitCode,
                   callVars>>

----------------------------------------------------------------------------
(* workload, launcher.py:422-428 *)

\* mutant of CheckCompose: the workload is set up whatever the share holds
CheckComposeAlways ==
    /\ pc = "check_compose"
    /\ \E b \in BOOLEAN :
         /\ shareCompose' = b
         /\ pc' = "setup_workload"
    /\ UNCHANGED <<mountVars, configPresent, config, composeRuns, composeRc,
                   workloadCompose, healthVars, attVars, pending, fileVars,
                   errorLogged, exitCode,
                   callVars>>

\* launcher.py:423-428
CheckCompose ==
    /\ pc = "check_compose"
    /\ \E b \in BOOLEAN :
         /\ shareCompose' = b
         /\ pc' = IF b THEN "setup_workload" ELSE "mode_branch"
    /\ UNCHANGED <<mountVars, configPresent, config, composeRuns, composeRc,
                   workloadCompose, healthVars, attVars, pending, fileVars,
                   errorLogged, exitCode,
                   callVars>>

\* setup_workload, launcher.py:72-105; rm, mkdir and the copies may fail
SetupWorkload ==
    /\ pc = "setup_workload"
    /\ statusFile' = Append(statusFile, "setup")
    /\ \E ok \in BOOLEAN :
         IF ok /\ shareCompose
           THEN /\ workloadCompose' \in ComposeFiles     \* copy of the share's
                /\ pc' = "run_compose" /\ UNCHANGED pending
           ELSE /\ workloadCompose' \in {workloadCompose, NoFile}
                /\ Raise(Exception("SetupFailure"))
    /\ UNCHANGED <<mountVars, configPresent, config, shareCompose, composeRuns,
                   composeRc, healthVars, attVars, errorFile, attestationFile,
                   errorLogged, exitCode,
                   callVars>>

\* mutant of RunCompose: the return code of docker compose is not looked at
RunComposeUnchecked ==
    /\ pc = "run_compose"
    /\ statusFile' = Append(statusFile, "building")
    /\ composeRuns' = composeRuns + 1
    /\ \E returncode \in {0, 1} : composeRc' = Append(composeRc, returncode)
    /\ pc' = "mode_branch"
    /\ UNCHANGED <<mountVars, configPresent, config, shareCompose,
                   workloadCompose, healthVars, attVars, pending, errorFile,
                   attestationFile, errorLogged, exitCode, callVars>>

\* run_compose, launcher.py:108-134
RunCompose ==
    /\ pc = "run_compose"
    /\ statusFile' = Append(statusFile, "building")
    /\ composeRuns' = composeRuns + 1
    /\ \E returncode \in {0, 1} :
         /\ composeRc' = Append(composeRc, returncode)
         /\ IF returncode # 0
              THEN Raise(Exception("ComposeFailure"))
              ELSE pc' = "mode_branch" /\ UNCHANGED pending
    /\ UNCHANGED <<mountVars, configPresent, config, shareCompose,
                   workloadCompose, healthVars,
                   attVars, errorFile, attestationFile, errorLogged, exitCode,
                   callVars>>

----------------------------------------------------------------------------
(* health, launcher.py:430-439, 455-457 and wait_for_health, 137-156 *)

\* launcher.py:430-434 and 455-457
ModeBranch ==
    /\ pc = "mode_branch"
    /\ IF Mode(config) = "persistent"
         THEN /\ health_status' = "unknown"
              /\ pc' = IF Truthy(config, "health_endpoint") \/ Truthy(config, "health_url")
                         THEN "wait_for_health" ELSE "persistent_attest"
         ELSE /\ pc' = "wait_for_health"
              /\ UNCHANGED health_status
    /\ UNCHANGED <<mountVars, configPresent, config, workVars, i, probeOk,
                   attVars, pending, fileVars, errorLogged, exitCode,
                   callVars>>

\* launcher.py:139-144
WaitForHealth ==
    /\ pc = "wait_for_health"
    /\ statusFile' = Append(statusFile, "waiting_for_health")
    /\ i' = 0
    /\ pc' = "health_loop"
    /\ UNCHANGED <<mountVars, configPresent, config, workVars, probeOk,
                   health_status, attVars, pending, errorFile,
                   attestationFile, errorLogged, exitCode,
                   callVars>>

\* mutants of HealthRaises: the pipeline is retried; the failure is swallowed
\* in every mode; the failure is fatal in every mode
HealthRaisesRetry(exc) ==
    /\ pc' = "wait_for_health"
    /\ UNCHANGED <<pending, health_status>>

HealthRaisesSwallowed(exc) ==
    /\ health_status' = "unhealthy"
    /\ pc' = IF Mode(config) = "persistent"
               THEN "persistent_attest" ELSE "get_tdx_attestation"
    /\ UNCHANGED pending

HealthRaisesFatal(exc) ==
    /\ Raise(exc)
    /\ UNCHANGED health_status

\* wait_for_health raised: launcher.py:435-439 (persistent), 457 (measure)
HealthRaises(exc) ==
    IF Mode(config) = "persistent"
      THEN /\ health_status' = "unhealthy"
           /\ pc' = "persistent_attest"
           /\ UNCHANGED pending
      ELSE /\ Raise(exc)
           /\ UNCHANGED health_status

\* one iteration of the loop, launcher.py:146-154
HealthProbe ==
    /\ pc = "health_loop"
    /\ i < HealthAttempts
    /\ \E outcome \in {"ok", "not_ok", "RequestException"} :
         IF outcome = "ok"
           THEN /\ probeOk' = TRUE
                /\ health_status' = "healthy"
                /\ pc' = IF Mode(config) = "persistent"
                           THEN "persistent_attest" ELSE "get_tdx_attestation"
                /\ i' = 0            \* wait_for_health returned: i is gone
           ELSE /\ i' = i + 1
                /\ UNCHANGED <<probeOk, health_status, pc>>
    /\ UNCHANGED <<mountVars, configPresent, config, workVars, attVars,
                   pending, fileVars, errorLogged, exitCode,
                   callVars>>

\* mutant of HealthTimeout: the health wait starts over when its budget is
\* used up
HealthTimeoutRestart ==
    /\ pc = "health_loop"
    /\ i = HealthAttempts
    /\ i' = 0
    /\ UNCHANGED <<pc, mountVars, configPresent, config, workVars, probeOk,
                   health_status, attVars, pending, fileVars, errorLogged,
                   exitCode, callVars>>

\* launcher.py:156
HealthTimeout ==
    /\ pc = "health_loop"
    /\ i = HealthAttempts
    /\ HealthRaises([kind |-> "Health check timeout after 120s", url |-> HealthUrl(config)])
    /\ UNCHANGED <<mountVars, configPresent, config, workVars, i, probeOk,
                   attVars, fileVars, errorLogged, exitCode,
                   callVars>>

----------------------------------------------------------------------------
(* attestation: launcher.py:441-448, 459-464 and get_tdx_attestation *)

\* mutant of PersistentAttest: attestation whether or not a key is configured
PersistentAttestAlways ==
    /\ pc = "persistent_attest"
    /\ pc' = "get_tdx_attestation"
    /\ UNCHANGED <<mountVars, configPresent, config, workVars, healthVars,
                   attVars, pending, fileVars, errorLogged, exitCode,
                   callVars>>

\* launcher.py:442
PersistentAttest ==
    /\ pc = "persistent_attest"
    /\ pc' = IF Truthy(config, "intel_api_key")
               THEN "get_tdx_attestation" ELSE "write_ready"
    /\ UNCHANGED <<mountVars, configPresent, config, workVars, healthVars,
                   attVars, pending, fileVars, errorLogged, exitCode,
                   callVars>>

\* launcher.py:338
GetTdxAttestation ==
    /\ pc = "get_tdx_attestation"
    /\ statusFile' = Append(statusFile, "attesting")
    /\ pc' = "generate_tdx_quote"
    /\ UNCHANGED <<mountVars, configPresent, config, workVars, healthVars,
                   attVars, pending, errorFile, attestationFile, errorLogged,
                   exitCode,
                   callVars>>

\* mutant of AttestationRaises: no try around the call in persistent mode
AttestationRaisesFatal(exc) == Raise(exc)

\* get_tdx_attestation raised: launcher.py:443-448 (persistent), 460 (measure)
AttestationRaises(exc) ==
    IF Mode(config) = "persistent"
      THEN pc' = "write_ready" /\ UNCHANGED pending
      ELSE Raise(exc)

\* generate_tdx_quote, launcher.py:159-189, called at launcher.py:345
GenerateTdxQuote ==
    /\ pc = "generate_tdx_quote"
    /\ quoteGens' = quoteGens + 1
    /\ \E outcome \in {"TDX not available", "OSError", "ok"} :
         IF outcome = "ok"
           THEN /\ \E n \in QuoteLens : quote' = [read |-> TRUE, len |-> n]
                /\ pc' = "build_result"
                /\ UNCHANGED pending
           ELSE /\ AttestationRaises(Exception(outcome))
                /\ UNCHANGED quote
    /\ UNCHANGED <<mountVars, configPresent, config, workVars, healthVars,
                   remoteCalls, ita_response, attestation, fileVars,
                   errorLogged, exitCode,
                   callVars>>

\* parse_tdx_quote, launcher.py:208-260, on a quote of n bytes
MeasurementFields ==
    {"quote_size", "version", "tee_tcb_svn", "mrseam", "mrsigner_seam",
     "seam_attributes", "td_attributes", "xfam", "mrtd", "mr_config_id",
     "mr_owner", "mr_owner_config", "rtmr0", "rtmr1", "rtmr2", "rtmr3",
     "report_data"}

ParseTdxQuote(n) ==
    IF n < MinQuoteSize THEN {"error"} ELSE MeasurementFields

\* parse_jwt_claims, launcher.py:291-320: "empty" is {}, "nulls" the dict
\* whose seven values are all None, "leaves" the dict of the tdx claims
ParseJwtClaims(t) ==
    IF t.segs # 3 THEN "empty"
    ELSE CASE t.payload = "tdx" -> "leaves"
           [] t.payload = "notdx" -> "nulls"
           [] OTHER -> "empty"

\* truth value of ita_response.get("token"), launcher.py:368
TokenTruthy(t) == t.type # "none" /\ ~t.empty

\* mutant of TdxKeys: a failed call of the authority leaves no trace
TdxKeysErrorDropped(cfg, resp) ==
    IF ~Truthy(cfg, "intel_api_key") THEN {}
    ELSE IF resp.kind = "error" THEN {}
    ELSE IF ~TokenTruthy(resp.token) THEN {}
    ELSE IF resp.token.type # "str"
      THEN {"intel_ta_token", "intel_ta_error"}
    ELSE IF ParseJwtClaims(resp.token) # "empty"
      THEN {"intel_ta_token", "verified_measurements"}
    ELSE {"intel_ta_token"}

\* the optional members of result["tdx"] set at launcher.py:363-379
TdxKeys(cfg, resp) ==
    IF ~Truthy(cfg, "intel_api_key") THEN {}
    ELSE IF resp.kind = "error" THEN {"intel_ta_error"}
    ELSE IF ~TokenTruthy(resp.token) THEN {}
    ELSE IF resp.token.type # "str"               \* token.split raises
      THEN {"intel_ta_token", "intel_ta_error"}
    ELSE IF ParseJwtClaims(resp.token) # "empty"
      THEN {"intel_ta_token", "verified_measurements"}
    ELSE {"intel_ta_token"}

\* hashlib.sha256(b).hexdigest(): the digest of b, kept as a symbol (two
\* digests are equal exactly when the bytes are)
Sha256Hex(b) == <<[sha256 |-> b]>>

\* compute_compose_hash, launcher.py:323-328; a string is the sequence of
\* its pieces, "" the empty sequence
ComputeComposeHash ==
    IF workloadCompose.exists THEN Sha256Hex(workloadCompose.bytes) ELSE <<>>

\* the dict returned by get_tdx_attestation, launcher.py:350-381
Result(cfg, q, hs, resp) ==
    [kind |-> "result",
     measurements |-> ParseTdxQuote(q.len),
     compose_hash |-> <<"sha256:">> \o ComputeComposeHash,
     health_status |-> IF hs = NoHealth THEN "unknown" ELSE hs,
     tdx_keys |-> TdxKeys(cfg, resp),
     intel_ta_token |-> IF "intel_ta_token" \in TdxKeys(cfg, resp)
                          THEN resp.token ELSE NoToken,
     verified_measurements |->
         IF "verified_measurements" \in TdxKeys(cfg, resp)
           THEN ParseJwtClaims(resp.token) ELSE "empty"]

\* mutant of BuildResult: the authority is called without an API key
BuildResultAlwaysRemote ==
    /\ pc = "build_result"
    /\ remoteCalls' = remoteCalls + 1
    /\ ita_response' \in Responses
    /\ attestation' = Result(config, quote, health_status, ita_response')
    /\ pc' = "write_attestation"
    /\ UNCHANGED <<mountVars, configPresent, config, workVars, healthVars,
                   quoteGens, quote, pending, fileVars, errorLogged, exitCode,
                   callVars>>

\* launcher.py:348-381
BuildResult ==
    /\ pc = "build_result"
    /\ IF Truthy(config, "intel_api_key")
         THEN /\ remoteCalls' = remoteCalls + 1
              /\ ita_response' \in Responses
         ELSE UNCHANGED <<remoteCalls, ita_response>>
    /\ attestation' = Result(config, quote, health_status, ita_response')
    /\ pc' = "write_attestation"
    /\ UNCHANGED <<mountVars, configPresent, config, workVars, healthVars,
                   quoteGens, quote, pending, fileVars, errorLogged, exitCode,
                   callVars>>

\* mutant of WriteAttestation: 'ready' is reached with the result unwritten
WriteAttestationSkipped ==
    /\ pc = "write_attestation"
    /\ pc' = "write_ready"
    /\ UNCHANGED <<mountVars, configPresent, config, workVars, healthVars,
                   attVars, pending, fileVars, errorLogged, exitCode,
                   callVars>>

\* launcher.py:445 and 463
WriteAttestation ==
    /\ pc = "write_attestation"
    /\ attestationFile' = Append(attestationFile, attestation)
    /\ pc' = "write_ready"
    /\ UNCHANGED <<mountVars, configPresent, config, workVars, healthVars,
                   attVars, pending, statusFile, errorFile, errorLogged,
                   exitCode,
                   callVars>>

----------------------------------------------------------------------------
(* the end of main(): launcher.py:450-454, 466-473 *)

\* launcher.py:450 and 466
WriteReady ==
    /\ pc = "write_ready"
    /\ statusFile' = Append(statusFile, "ready")
    /\ pc' = IF Mode(config) = "persistent" THEN "hold" ELSE "return"
    /\ UNCHANGED <<mountVars, configPresent, config, workVars, healthVars,
                   attVars, pending, errorFile, attestationFile, errorLogged,
                   exitCode,
                   callVars>>

\* mutant of Hold: the loop is left after the first sleep
HoldOnce ==
    /\ pc \in {"hold", "sleep"}
    /\ IF pc = "hold"
         THEN pc' = "sleep" /\ UNCHANGED exitCode
         ELSE pc' = "exit" /\ exitCode' = <<0>>
    /\ UNCHANGED <<mountVars, configPresent, config, workVars, healthVars,
                   attVars, pending, fileVars, errorLogged, callVars>>

\* launcher.py:453-454: while True: time.sleep(60)
Hold ==
    /\ pc \in {"hold", "sleep"}
    /\ pc' = IF pc = "hold" THEN "sleep" ELSE "hold"
    /\ UNCHANGED <<mountVars, configPresent, config, workVars, healthVars,
                   attVars, pending, fileVars, errorLogged, exitCode,
                   callVars>>

\* mutant of Return: main() returns 1 after 'ready'
ReturnNonZero ==
    /\ pc = "return"
    /\ exitCode' = <<1>>
    /\ pc' = "exit"
    /\ UNCHANGED <<mountVars, configPresent, config, workVars, healthVars,
                   attVars, pending, fileVars, errorLogged, callVars>>

\* launcher.py:469 and 477
Return ==
    /\ pc = "return"
    /\ exitCode' = <<0>>
    /\ pc' = "exit"
    /\ UNCHANGED <<mountVars, configPresent, config, workVars, healthVars,
                   attVars, pending, fileVars, errorLogged,
                   callVars>>

\* mutant of WriteErrorLog: error.log is not written
WriteErrorLogSkipped ==
    /\ pc = "write_error"
    /\ pc' = "write_error_status"
    /\ UNCHANGED <<mountVars, configPresent, config, workVars, healthVars,
                   attVars, pending, fileVars, errorLogged, exitCode,
                   callVars>>

\* write_error, launcher.py:55
WriteErrorLog ==
    /\ pc = "write_error"
    /\ errorFile' = Append(errorFile, pending)
    /\ pc' = "write_error_status"
    /\ UNCHANGED <<mountVars, configPresent, config, workVars, healthVars,
                   attVars, pending, statusFile, attestationFile, errorLogged,
                   exitCode,
                   callVars>>

\* write_error, launcher.py:56-57
WriteErrorStatus ==
    /\ pc = "write_error_status"
    /\ statusFile' = Append(statusFile, "error")
    /\ errorLogged' = errorLogged \cup {pending.kind}
    /\ pc' = "reraise"
    /\ UNCHANGED <<mountVars, configPresent, config, workVars, healthVars,
                   attVars, pending, errorFile, attestationFile, exitCode,
                   callVars>>

\* launcher.py:472-473: the exception leaves main() and ends the process
Reraise ==
    /\ pc = "reraise"
    /\ exitCode' = <<1>>
    /\ pc' = "exit"
    /\ UNCHANGED <<mountVars, configPresent, config, workVars, healthVars,
                   attVars, pending, fileVars, errorLogged,
                   callVars>>

----------------------------------------------------------------------------
Next ==
    \/ HostMounts
    \/ HostWritesConfig
    \/ MountLoop
    \/ MountFinal
    \/ WaitForConfig
    \/ CheckCompose
    \/ SetupWorkload
    \/ RunCompose
    \/ ModeBranch
    \/ WaitForHealth
    \/ HealthProbe
    \/ HealthTimeout
    \/ PersistentAttest
    \/ GetTdxAttestation
    \/ GenerateTdxQuote
    \/ BuildResult
    \/ WriteAttestation
    \/ WriteReady
    \/ Hold
    \/ Return
    \/ WriteErrorLog
    \/ WriteErrorStatus
    \/ Reraise

Spec == Init /\ [][Next]_vars

\* the steps of the launcher process itself, without those of the host
ProgramNext ==
    \/ MountLoop
    \/ MountFinal
    \/ WaitForConfig
    \/ CheckCompose
    \/ SetupWorkload
    \/ RunCompose
    \/ ModeBranch
    \/ WaitForHealth
    \/ HealthProbe
    \/ HealthTimeout
    \/ PersistentAttest
    \/ GetTdxAttestation
    \/ GenerateTdxQuote
    \/ BuildResult
    \/ WriteAttestation
    \/ WriteReady
    \/ Hold
    \/ Return
    \/ WriteErrorLog
    \/ WriteErrorStatus
    \/ Reraise

\* The interpreter keeps running the process: a step of the launcher that
\* stays possible is taken. Nothing is assumed of the host.
FairSpec == Spec /\ WF_vars(ProgramNext)

----------------------------------------------------------------------------
(* Properties *)

Range(s) == {s[k] : k \in 1..Len(s)}

Phases == <<"setup", "building", "waiting_for_health", "attesting", "ready">>

Rank(p) == CHOOSE k \in 1..Len(Phases) : Phases[k] = p

IsConfig == config \in Configs
MeasureMode == IsConfig /\ Mode(config) # "persistent"
PersistentMode == IsConfig /\ Mode(config) = "persistent"
ErrorPath == pc \in {"write_error", "write_error_status", "reraise"}
                \/ (pc = "exit" /\ exitCode = <<1>> /\ pending # NoException)
HealthTimeoutMessage == "Health check timeout after 120s"

\* C1: the values written to the status file are, in order, a subsequence of
\* setup, building, waiting_for_health, attesting, ready, each written at
\* most once, followed by at most one 'error', which is then the last write.
C1_StatusOrder ==
    /\ Range(statusFile) \subseteq Range(Phases) \cup {"error"}
    /\ \A j, k \in 1..Len(statusFile) :
         j < k => /\ statusFile[j] # "error"
                  /\ statusFile[k] # "error"
                       => Rank(statusFile[j]) < Rank(statusFile[k])
    /\ (pc = "exit" /\ "error" \in Range(statusFile)) => Last(statusFile) = "error"

C1_Witness ==
    /\ pc = "exit"
    /\ statusFile = <<"setup", "building", "waiting_for_health", "error">>

\* C2: in measure mode attestation starts only after a health probe has
\* succeeded; when all 60 probes fail, error.log holds the probe URL, the
\* last status is 'error', the exit status is non-zero, and 'attesting',
\* 'ready' and attestation.json are never written.
C2_MeasureHealthGate ==
    MeasureMode =>
      /\ ("attesting" \in Range(statusFile) \/ quoteGens > 0 \/ attestationFile # <<>>)
           => probeOk
      /\ (i = HealthAttempts /\ pc # "health_loop") =>
           /\ ~probeOk
           /\ ErrorPath
           /\ pending = [kind |-> HealthTimeoutMessage, url |-> HealthUrl(config)]
           /\ {"attesting", "ready"} \cap Range(statusFile) = {}
           /\ quoteGens = 0
           /\ attestationFile = <<>>
           /\ pc = "exit" =>
                /\ errorFile = <<pending>>
                /\ Last(statusFile) = "error"
                /\ exitCode = <<1>>

C2_Witness ==
    /\ MeasureMode
    /\ i = HealthAttempts
    /\ pc = "exit"
    /\ config.health_port = "9000"

ProbeConfigured ==
    Truthy(config, "health_endpoint") \/ Truthy(config, "health_url")

\* C3: in persistent mode a failed or absent health probe never leads to
\* Error: the launcher goes on to attestation and 'ready', with health
\* status 'unhealthy' exactly when a configured probe used up its 60
\* attempts, 'unknown' exactly when no probe is configured, and 'healthy'
\* exactly when a probe succeeded; the written result records that status.
C3_PersistentHealth ==
    (PersistentMode /\ health_status # NoHealth) =>
      /\ ~ErrorPath
      /\ "error" \notin Range(statusFile)
      /\ errorFile = <<>>
      /\ pc \notin {"wait_for_health", "health_loop"} =>
           /\ health_status = "unknown" <=> ~ProbeConfigured
           /\ health_status = "healthy" <=> probeOk
           /\ health_status = "unhealthy" <=>
                (ProbeConfigured /\ ~probeOk /\ i = HealthAttempts)
           /\ health_status \in {"unknown", "healthy", "unhealthy"}
           /\ \A k \in 1..Len(attestationFile) :
                attestationFile[k].health_status = health_status

C3_Witness ==
    /\ PersistentMode
    /\ health_status = "unhealthy"
    /\ Len(attestationFile) = 1
    /\ Last(statusFile) = "ready"

Finished == pc \in {"exit", "hold", "sleep"}
QuoteGenerationFailed ==
    quoteGens > 0 /\ ~quote.read /\ pc # "generate_tdx_quote"
KeyConfigured == Truthy(config, "intel_api_key")

\* C4 as stated: every error on the attestation path, a failing quote
\* generation included, still ends with attestation.json written and
\* status 'ready', never 'error'.
C4_Original ==
    (quoteGens > 0 /\ Finished) =>
      /\ attestationFile # <<>>
      /\ Last(statusFile) = "ready"
      /\ "error" \notin Range(statusFile)

\* C4 (amended): a quote that fails to decode, a failing call of the
\* authority and a malformed token are embedded in the result and never
\* abort: once the quote has been generated the run writes attestation.json
\* and reaches 'ready' in both modes.  A failing quote generation is not
\* embedded: in measure mode it ends the run in Error, in persistent mode the
\* run reaches 'ready' without attestation.json.
C4_AttestationErrors ==
    /\ quote.read =>
         /\ ~ErrorPath
         /\ errorFile = <<>>
         /\ pc \in {"write_attestation", "write_ready", "return"} \cup {"exit", "hold", "sleep"} =>
              /\ "error" \in attestation.measurements <=> quote.len < MinQuoteSize
              /\ ita_response.kind = "error" => "intel_ta_error" \in attestation.tdx_keys
              /\ (TokenTruthy(ita_response.token) /\ ita_response.token.type # "str")
                   => "intel_ta_error" \in attestation.tdx_keys
         /\ Finished =>
              /\ attestationFile = <<attestation>>
              /\ Last(statusFile) = "ready"
    /\ (QuoteGenerationFailed /\ MeasureMode) =>
         /\ ErrorPath
         /\ attestationFile = <<>>
         /\ "ready" \notin Range(statusFile)
         /\ pc = "exit" => (Last(statusFile) = "error" /\ errorFile = <<pending>>)
    /\ (QuoteGenerationFailed /\ PersistentMode) =>
         /\ ~ErrorPath
         /\ attestationFile = <<>>
         /\ Finished => Last(statusFile) = "ready"

C4_Witness ==
    /\ Finished
    /\ PersistentMode
    /\ attestationFile # <<>>
    /\ "error" \in Last(attestationFile).measurements
    /\ "intel_ta_error" \in Last(attestationFile).tdx_keys
    /\ Last(statusFile) = "ready"

\* C5: an exception that reaches main()'s handler makes the launcher write
\* error.log with the message, then status 'error', then exit non-zero; so
\* 'error' in status implies error.log written, a non-zero exit through the
\* handler implies both, and error.log is never written on a run with 'ready'.
C5_ErrorOrder ==
    /\ pending # NoException => ErrorPath
    /\ "error" \in Range(statusFile) => errorFile = <<pending>>
    /\ errorFile # <<>> => (errorFile = <<pending>> /\ pending # NoException)
    /\ (pc \in {"reraise", "exit"} /\ pending # NoException) =>
         /\ errorFile = <<pending>>
         /\ Last(statusFile) = "error"
    /\ (pc = "exit" /\ pending # NoException) => exitCode = <<1>>
    /\ exitCode = <<1>> => pc = "exit"
    /\ ~("ready" \in Range(statusFile) /\ errorFile # <<>>)

C5_Witness ==
    /\ pc = "exit"
    /\ PersistentMode
    /\ pending.kind = "ComposeFailure"
    /\ Last(statusFile) = "error"

Count(s, v) == Cardinality({k \in 1..Len(s) : s[k] = v})

\* C6: 'attesting' is written and a quote generated at most once per run;
\* in measure mode always once health has succeeded, API key or not; in
\* persistent mode only with an API key, and without one the run reaches
\* 'ready' with neither 'attesting' nor attestation.json written.
\* attestation.json is written at most once.
C6_AttestOnce ==
    /\ Count(statusFile, "attesting") <= 1
    /\ quoteGens <= 1
    /\ Len(attestationFile) <= 1
    /\ quoteGens = 1 => "attesting" \in Range(statusFile)
    /\ (MeasureMode /\ probeOk) =>
         /\ pc # "get_tdx_attestation" => "attesting" \in Range(statusFile)
         /\ pc \notin {"get_tdx_attestation", "generate_tdx_quote"} => quoteGens = 1
    /\ PersistentMode =>
         /\ ("attesting" \in Range(statusFile) \/ quoteGens > 0 \/ attestationFile # <<>>)
              => KeyConfigured
         /\ (KeyConfigured /\ pc \in {"write_ready", "hold", "sleep"}) => quoteGens = 1
         /\ (~KeyConfigured /\ pc \in {"hold", "sleep"}) => Last(statusFile) = "ready"

C6_Witness ==
    /\ PersistentMode
    /\ ~KeyConfigured
    /\ pc = "hold"
    /\ Last(statusFile) = "ready"
    /\ attestationFile = <<>>

\* C7: every attestation.json written holds tdx.measurements, as decoded
\* from the quote; it holds intel_ta_token or verified_measurements only if
\* an API key is configured and the authority answered.  Without an API key
\* the authority is not called, both members are missing, and the run ends
\* in 'ready'.
C7_ResultContents ==
    \A k \in 1..Len(attestationFile) :
      LET r == attestationFile[k] IN
        /\ r.measurements = ParseTdxQuote(quote.len)
        /\ r.measurements # {}
        /\ quote.len >= MinQuoteSize => r.measurements = MeasurementFields
        /\ ({"intel_ta_token", "verified_measurements"} \cap r.tdx_keys # {})
             => (KeyConfigured /\ remoteCalls = 1 /\ ita_response.kind = "json")
        /\ "verified_measurements" \in r.tdx_keys => "intel_ta_token" \in r.tdx_keys
        /\ ~KeyConfigured =>
             /\ remoteCalls = 0
             /\ r.tdx_keys = {}
             /\ r.intel_ta_token = NoToken
             /\ Finished => Last(statusFile) = "ready"

C7_Witness ==
    /\ MeasureMode
    /\ pc = "exit"
    /\ ~KeyConfigured
    /\ Len(attestationFile) = 1
    /\ Last(attestationFile).measurements = MeasurementFields
    /\ Last(statusFile) = "ready"

\* C8: with an API key configured and the call of the authority failing,
\* the result holds tdx.intel_ta_error and neither token nor verified
\* measurements, it is still written with the local measurements, and the
\* run reaches 'ready', never 'error', in both modes.
C8_RemoteFailure ==
    (IsConfig /\ KeyConfigured /\ ita_response.kind = "error") =>
      /\ attestation.tdx_keys = {"intel_ta_error"}
      /\ attestation.intel_ta_token = NoToken
      /\ attestation.measurements = ParseTdxQuote(quote.len)
      /\ ~ErrorPath
      /\ "error" \notin Range(statusFile)
      /\ Finished =>
           /\ attestationFile = <<attestation>>
           /\ Last(statusFile) = "ready"

C8_Witness ==
    /\ MeasureMode
    /\ ita_response.kind = "error"
    /\ pc = "exit"
    /\ exitCode = <<0>>
    /\ Len(attestationFile) = 1

MountTimedOut == pc = "exit" /\ config = NoConfig /\ pending = NoException

ManualMountsUpTo(n) == {a \in 1..(n - 1) : a % ManualMountEvery = 0}

\* C9 as stated: when the mount budget is used up, error detail is written
\* to the share as on any other transition to Error.
C9_Original ==
    MountTimedOut => (errorFile # <<>> /\ "error" \in Range(statusFile))

\* C9 (amended): the loop checks the share at most 60 times, with a manual
\* mount at every 3rd attempt after the first check (attempts 3, 6, ..., 57),
\* leaves at the first check that finds the share mounted and goes on to
\* the configuration; when the share is still not mounted at the check
\* after the loop, the launcher logs the failure and exits with status 1:
\* it writes neither error.log nor status, and never reads the config.
C9_MountWait ==
    /\ pc \in {"mount_loop", "mount_final"} =>
         /\ attempt <= MountAttempts
         /\ manualAt = ManualMountsUpTo(attempt)
         /\ mountChecks = IF pc = "mount_final" /\ attempt < MountAttempts
                            THEN attempt + 1 ELSE attempt
         /\ (pc = "mount_final" /\ attempt < MountAttempts) => mounted
         /\ config = NoConfig /\ statusFile = <<>>
    /\ pc \notin {"mount_loop", "mount_final", "exit"} => mounted
    /\ config # NoConfig => mounted
    /\ MountTimedOut =>
         /\ ~mounted
         /\ attempt = MountAttempts
         /\ mountChecks = MountAttempts + 1
         /\ manualAt = ManualMountsUpTo(MountAttempts)
         /\ errorLogged = {"Share directory not available after 120s"}
         /\ exitCode = <<1>>
         /\ errorFile = <<>> /\ statusFile = <<>> /\ attestationFile = <<>>
         /\ composeRuns = 0 /\ quoteGens = 0

C9_Witness ==
    /\ MountTimedOut
    /\ Cardinality(manualAt) = 19

\* C10 as stated: without a compose descriptor the launcher passes through
\* Setup and goes from there to the mode branch.
C10_Original ==
    (IsConfig /\ ~shareCompose /\ pc # "check_compose")
      => "setup" \in Range(statusFile)

\* C10 (amended): without a compose descriptor in the share, setup_workload
\* and the compose invocation are both skipped: neither 'setup' nor
\* 'building' is written, compose is never invoked, and the launcher goes
\* from the configuration to the mode branch; in measure mode the first
\* status written is 'waiting_for_health'.
C10_NoCompose ==
    (IsConfig /\ ~shareCompose /\ pc # "check_compose") =>
      /\ composeRuns = 0
      /\ {"setup", "building"} \cap Range(statusFile) = {}
      /\ pc \notin {"setup_workload", "run_compose"}
      /\ pending.kind \notin {"SetupFailure", "ComposeFailure"}
      /\ (MeasureMode /\ pc # "mode_branch") =>
           (pc = "wait_for_health" \/ statusFile[1] = "waiting_for_health")

C10_Witness ==
    /\ MeasureMode
    /\ ~shareCompose
    /\ config.health_endpoint = "/ready"
    /\ pc = "health_loop"
    /\ statusFile = <<"waiting_for_health">>

LaterPhases == {"waiting_for_health", "attesting", "ready"}

\* C11: with a compose descriptor present, health wait and attestation
\* start only after docker compose returned 0; a non-zero return code ends
\* the run in Error in both modes, and 'waiting_for_health', 'attesting' and
\* 'ready' are never written in that run.
C11_ComposeGate ==
    /\ (IsConfig /\ shareCompose /\
          (LaterPhases \cap Range(statusFile) # {} \/ quoteGens > 0
             \/ health_status # NoHealth \/ attestationFile # <<>>))
         => (composeRc = <<0>> /\ composeRuns = 1)
    /\ (composeRc # <<>> /\ Last(composeRc) # 0) =>
         /\ composeRc = <<1>>
         /\ ErrorPath
         /\ pending = Exception("ComposeFailure")
         /\ LaterPhases \cap Range(statusFile) = {}
         /\ quoteGens = 0 /\ attestationFile = <<>>
         /\ pc = "exit" => (Last(statusFile) = "error" /\ exitCode = <<1>>)

C11_Witness ==
    /\ PersistentMode
    /\ composeRc = <<1>>
    /\ pc = "exit"
    /\ statusFile = <<"setup", "building", "error">>

\* C12: the process exits with 0 exactly when the last status written is
\* 'ready', and with a non-zero status on every run that ended in an error
\* before 'ready'; it never exits 0 with status 'error' and never exits
\* non-zero after 'ready' was written.
C12_ExitCode ==
    /\ exitCode \in {Running, <<0>>, <<1>>}
    /\ pc = "exit" <=> exitCode # Running
    /\ exitCode = <<0>> <=>
         (pc = "exit" /\ statusFile # <<>> /\ Last(statusFile) = "ready")
    /\ exitCode = <<1>> <=>
         (pc = "exit" /\ (MountTimedOut \/ pending # NoException))
    /\ "error" \in Range(statusFile) => exitCode # <<0>>
    /\ "ready" \in Range(statusFile) => exitCode # <<1>>
    /\ (pc = "exit" /\ "ready" \notin Range(statusFile)) => exitCode = <<1>>

C12_Witness ==
    /\ pc = "exit"
    /\ exitCode = <<0>>
    /\ Last(statusFile) = "ready"

Held == PersistentMode /\ "ready" \in Range(statusFile)

\* C13: in persistent mode, once 'ready' is written the launcher only
\* sleeps: it never exits, status stays 'ready', and status, error.log and
\* attestation.json are never written again.
C13_PersistentHold ==
    [][Held =>
         /\ Held'
         /\ pc \in {"hold", "sleep"} /\ pc' \in {"hold", "sleep"}
         /\ Last(statusFile) = "ready"
         /\ fileVars' = fileVars
         /\ exitCode' = Running
         /\ <<config, workVars, healthVars, attVars, pending, errorLogged>>'
              = <<config, workVars, healthVars, attVars, pending, errorLogged>>
         /\ pc' # pc]_vars

C13_Witness ==
    /\ PersistentMode
    /\ pc = "sleep"
    /\ Last(statusFile) = "ready"
    /\ Len(attestationFile) = 1

\* C20: in measure mode, in every state where 'ready' has been written to
\* status, attestation.json has already been written with the result.
C20_ResultBeforeReady ==
    (MeasureMode /\ "ready" \in Range(statusFile)) =>
      /\ attestationFile = <<attestation>>
      /\ attestation # NoAttestation
      /\ quote.read

C20_Witness ==
    /\ MeasureMode
    /\ pc = "return"
    /\ Last(statusFile) = "ready"
    /\ Len(attestationFile) = 1

\* C17: in every written result workload.compose_hash is 'sha256:' followed
\* by the SHA-256 hex digest of the bytes of the workload's compose
\* descriptor when that file exists, and the empty string when it does not.
C17_ComposeHash ==
    \A k \in 1..Len(attestationFile) :
      attestationFile[k].compose_hash =
        IF workloadCompose.exists
          THEN <<"sha256:">> \o Sha256Hex(workloadCompose.bytes)
          ELSE <<>>

----------------------------------------------------------------------------
(* Functions called on their own.  main() has not started: its state is    *)
(* the one below and stays so.                                             *)

MainIdle ==
    /\ pc = "idle"
    /\ attempt = 0
    /\ mounted = FALSE
    /\ manualAt = {}
    /\ mountChecks = 0
    /\ configPresent = FALSE
    /\ config = NoConfig
    /\ shareCompose = FALSE
    /\ composeRuns = 0
    /\ composeRc = <<>>
    /\ workloadCompose = NoFile
    /\ i = 0
    /\ probeOk = FALSE
    /\ health_status = NoHealth
    /\ quoteGens = 0
    /\ quote = NoQuote
    /\ remoteCalls = 0
    /\ ita_response = NoResponse
    /\ attestation = NoAttestation
    /\ pending = NoException
    /\ statusFile = <<>>
    /\ errorFile = <<>>
    /\ attestationFile = <<>>
    /\ errorLogged = {}
    /\ exitCode = Running

Min(a, b) == IF a < b THEN a ELSE b

\* s[a:b] of a bytes or str object (0-based, clipped to the length)
Slice(s, a, b) == SubSeq(s, a + 1, Min(b, Len(s)))

HexChars == <<"0", "1", "2", "3", "4", "5", "6", "7",
              "8", "9", "a", "b", "c", "d", "e", "f">>

\* bytes.hex(): two lowercase digits per byte
Hex(bs) ==
    [k \in 1..(2 * Len(bs)) |->
       IF k % 2 = 1 THEN HexChars[(bs[(k + 1) \div 2] \div 16) + 1]
                    ELSE HexChars[(bs[k \div 2] % 16) + 1]]

----------------------------------------------------------------------------
(* parse_tdx_quote, launcher.py:192-260 *)

td_report_offset == 48

MaxPattern == 4

\* a quote of n bytes whose byte at offset k is (k * m + c) mod 256
QuoteBytes(n, m, c) == [k \in 1..n |-> ((k - 1) * m + c) % 256]

QuoteSizes == {0, 2, 47, MinQuoteSize - 1, MinQuoteSize, MinQuoteSize + 16,
               631, 632, 640}

\* the argument: base64 text, by whether it decodes and the bytes it encodes
QuoteArgs ==
    {[valid |-> TRUE, bytes |-> QuoteBytes(n, m, c)] :
        n \in QuoteSizes, m \in {1, 7, 251}, c \in 0..MaxPattern}
    \cup {[valid |-> FALSE, bytes |-> <<>>]}

\* struct.unpack('<H', b)[0]
UnpackLE16(b) == b[1] + 256 * b[2]

\* launcher.py:215-260
ExtractFields(q) ==
    [quote_size |-> Len(q),
     version |-> UnpackLE16(Slice(q, 0, 2)),
     tee_tcb_svn |-> Hex(Slice(q, td_report_offset, td_report_offset + 16)),
     mrseam |-> Hex(Slice(q, td_report_offset + 16, td_report_offset + 64)),
     mrsigner_seam |-> Hex(Slice(q, td_report_offset + 64, td_report_offset + 112)),
     seam_attributes |-> Hex(Slice(q, td_report_offset + 112, td_report_offset + 120)),
     td_attributes |-> Hex(Slice(q, td_report_offset + 120, td_report_offset + 128)),
     xfam |-> Hex(Slice(q, td_report_offset + 128, td_report_offset + 136)),
     mrtd |-> Hex(Slice(q, td_report_offset + 136, td_report_offset + 184)),
     mr_config_id |-> Hex(Slice(q, td_report_offset + 184, td_report_offset + 232)),
     mr_owner |-> Hex(Slice(q, td_report_offset + 232, td_report_offset + 280)),
     mr_owner_config |-> Hex(Slice(q, td_report_offset + 280, td_report_offset + 328)),
     rtmr0 |-> Hex(Slice(q, td_report_offset + 328, td_report_offset + 328 + 48)),
     rtmr1 |-> Hex(Slice(q, td_report_offset + 328 + 48, td_report_offset + 328 + 96)),
     rtmr2 |-> Hex(Slice(q, td_report_offset + 328 + 96, td_report_offset + 328 + 144)),
     rtmr3 |-> Hex(Slice(q, td_report_offset + 328 + 144, td_report_offset + 328 + 192)),
     report_data |-> Hex(Slice(q, td_report_offset + 520, td_report_offset + 584))]

\* mutant of parse_tdx_quote: only the header is required
parse_tdx_quote_header_only(quote_b64) ==
    IF ~quote_b64.valid THEN [error |-> "Invalid base64 quote"]
    ELSE IF Len(quote_b64.bytes) < td_report_offset THEN [error |-> "Quote too short"]
    ELSE ExtractFields(quote_b64.bytes)

\* launcher.py:202-260
parse_tdx_quote(quote_b64) ==
    IF ~quote_b64.valid THEN [error |-> "Invalid base64 quote"]
    ELSE IF Len(quote_b64.bytes) < MinQuoteSize THEN [error |-> "Quote too short"]
    ELSE ExtractFields(quote_b64.bytes)

InitParse ==
    /\ MainIdle
    /\ fn = [name |-> "parse_tdx_quote", at |-> "called"]
    /\ arg \in QuoteArgs
    /\ ret = <<>>
    /\ tsm = <<>>

ParseTdxQuoteCall ==
    /\ fn = [name |-> "parse_tdx_quote", at |-> "called"]
    /\ ret' = parse_tdx_quote(arg)
    /\ fn' = [fn EXCEPT !.at = "returned"]
    /\ UNCHANGED <<mainVars, arg, tsm>>

NextParse == ParseTdxQuoteCall

SpecParse == InitParse /\ [][NextParse]_vars

Parsed == fn = [name |-> "parse_tdx_quote", at |-> "returned"]

\* the documented layout: field |-> <<offset, width>>
Layout ==
    [tee_tcb_svn |-> <<48, 16>>, mrseam |-> <<64, 48>>,
     mrsigner_seam |-> <<112, 48>>, seam_attributes |-> <<160, 8>>,
     td_attributes |-> <<168, 8>>, xfam |-> <<176, 8>>, mrtd |-> <<184, 48>>,
     mr_config_id |-> <<232, 48>>, mr_owner |-> <<280, 48>>,
     mr_owner_config |-> <<328, 48>>, rtmr0 |-> <<376, 48>>,
     rtmr1 |-> <<424, 48>>, rtmr2 |-> <<472, 48>>, rtmr3 |-> <<520, 48>>,
     report_data |-> <<568, 64>>]

\* C14: for a quote of 584 bytes or more, every field is the hex of the
\* bytes at its documented offset, at its full documented width, and
\* version is the little-endian integer of bytes 0..1.
C14_FieldLayout ==
    (Parsed /\ arg.valid /\ Len(arg.bytes) >= MinQuoteSize) =>
      /\ DOMAIN ret = DOMAIN Layout \cup {"quote_size", "version"}
      /\ ret.version = arg.bytes[1] + 256 * arg.bytes[2]
      /\ \A f \in DOMAIN Layout :
           /\ Len(ret[f]) = 2 * Layout[f][2]
           /\ ret[f] = Hex(Slice(arg.bytes, Layout[f][1], Layout[f][1] + Layout[f][2]))

\* C15: for a quote shorter than 584 bytes the function returns only the
\* error indicator: no version, no register value; it does not raise.
C15_ShortQuote ==
    (fn.name = "parse_tdx_quote" /\ arg.valid /\ Len(arg.bytes) < MinQuoteSize) =>
      /\ fn.at \in {"called", "returned"}
      /\ Parsed => (DOMAIN ret = {"error"} /\ ret.error = "Quote too short")

C15_Witness ==
    /\ Parsed
    /\ arg.valid
    /\ Len(arg.bytes) = MinQuoteSize - 1
    /\ DOMAIN ret = {"error"}

----------------------------------------------------------------------------
(* parse_jwt_claims, launcher.py:291-320 *)

MaxTokenLen == 5

\* The characters of a token: "." separates segments; every other letter
\* stands for one base64url word (padding and alphabet of lines 300-304
\* included), named after what it decodes to.
TokenChars == {".", "T", "P", "N", "L", "X"}

JwtArgs == UNION {[1..n -> TokenChars] : n \in 0..MaxTokenLen}

\* the leaves read from the "tdx" object: output key |-> claim name
ClaimOf ==
    [mrtd |-> "tdx_mrtd", rtmr0 |-> "tdx_rtmr0", rtmr1 |-> "tdx_rtmr1",
     rtmr2 |-> "tdx_rtmr2", rtmr3 |-> "tdx_rtmr3",
     report_data |-> "tdx_report_data",
     attester_tcb_status |-> "attester_tcb_status"]

AllLeaves == {ClaimOf[k] : k \in DOMAIN ClaimOf}

None == <<>>

\* the value stored under a leaf of the payload
LeafValue(name) == <<name>>

EmptyDict == [k \in {} |-> None]

\* json.loads(base64.b64decode(payload)): "T" an object whose "tdx" object
\* holds every leaf, "P" one whose "tdx" holds only tdx_mrtd, "N" an object
\* without "tdx", "L" a JSON list; anything else does not decode.
DecodeJson(payload) ==
    IF payload = <<"T">> THEN [type |-> "object", has_tdx |-> TRUE, leaves |-> AllLeaves]
    ELSE IF payload = <<"P">> THEN [type |-> "object", has_tdx |-> TRUE, leaves |-> {"tdx_mrtd"}]
    ELSE IF payload = <<"N">> THEN [type |-> "object", has_tdx |-> FALSE, leaves |-> {}]
    ELSE IF payload = <<"L">> THEN [type |-> "list", has_tdx |-> FALSE, leaves |-> {}]
    ELSE [type |-> "invalid", has_tdx |-> FALSE, leaves |-> {}]

\* str.split('.')
RECURSIVE Split(_)
Split(s) ==
    IF \A k \in 1..Len(s) : s[k] # "." THEN <<s>>
    ELSE LET d == CHOOSE k \in 1..Len(s) :
                    s[k] = "." /\ \A j \in 1..(k - 1) : s[j] # "."
         IN <<SubSeq(s, 1, d - 1)>> \o Split(SubSeq(s, d + 1, Len(s)))

\* launcher.py:307-317: claims.get("tdx", {}) and the seven tdx.get(...)
ClaimsDict(claims) ==
    LET tdx == IF claims.has_tdx THEN claims.leaves ELSE {}
    IN [k \in DOMAIN ClaimOf |->
          IF ClaimOf[k] \in tdx THEN LeafValue(ClaimOf[k]) ELSE None]

\* mutant of parse_jwt_claims: the segment count is not checked exactly
parse_jwt_claims_any_parts(jwt_token) ==
    LET parts == Split(jwt_token) IN
    IF Len(parts) < 2 THEN EmptyDict
    ELSE LET claims == DecodeJson(parts[2]) IN
         IF claims.type # "object" THEN EmptyDict
         ELSE ClaimsDict(claims)

\* launcher.py:291-320
parse_jwt_claims(jwt_token) ==
    LET parts == Split(jwt_token) IN
    IF Len(parts) # 3 THEN EmptyDict
    ELSE LET claims == DecodeJson(parts[2]) IN
         IF claims.type # "object" THEN EmptyDict
         ELSE ClaimsDict(claims)

InitJwt ==
    /\ MainIdle
    /\ fn = [name |-> "parse_jwt_claims", at |-> "called"]
    /\ arg \in JwtArgs
    /\ ret = <<>>
    /\ tsm = <<>>

ParseJwtClaimsCall ==
    /\ fn = [name |-> "parse_jwt_claims", at |-> "called"]
    /\ ret' = parse_jwt_claims(arg)
    /\ fn' = [fn EXCEPT !.at = "returned"]
    /\ UNCHANGED <<mainVars, arg, tsm>>

NextJwt == ParseJwtClaimsCall

SpecJwt == InitJwt /\ [][NextJwt]_vars

JwtParsed == fn = [name |-> "parse_jwt_claims", at |-> "returned"]

Dots == {k \in 1..Len(arg) : arg[k] = "."}

\* the text between the two dots of a three-segment token
Middle ==
    LET a == CHOOSE k \in Dots : \A j \in Dots : k <= j
        b == CHOOSE k \in Dots : \A j \in Dots : j <= k
    IN SubSeq(arg, a + 1, b - 1)

ThreeSegments == Cardinality(Dots) = 2

----------------------------------------------------------------------------
(* generate_tdx_quote, launcher.py:159-189, one step per file-system call.
   tsm is the ConfigFS-TSM report directory as this invocation sees it:
   present: TSM_REPORT_PATH exists; dirs: the report directories in it;
   before: dirs at the call; created, removed: what this invocation made
   and removed; inblob: the bytes written; outcome: how the try block ended.
   Removing a report directory of configfs succeeds and takes its
   attribute files with it. *)

MaxFill == 1

InblobSize == 64

\* report_id of this invocation, launcher.py:172
ReportId == "quote_pid_time"

\* report directories of other invocations
OtherReports == {"quote_other_1", "quote_other_2"}

UserDataSizes == {0, 1, InblobSize - 1, InblobSize, InblobSize + 1, InblobSize + 6}

\* user_data: None, or bytes
UserDataArgs ==
    {[none |-> TRUE, bytes |-> <<>>]}
    \cup {[none |-> FALSE, bytes |-> QuoteBytes(n, 1, c)] :
            n \in UserDataSizes, c \in 1..(MaxFill + 1)}

\* bytes.ljust(n, fill)
Ljust(b, n, fill) ==
    IF Len(b) >= n THEN b ELSE b \o [k \in 1..(n - Len(b)) |-> fill]

\* launcher.py:179-182
Inblob(user_data) ==
    IF ~user_data.none /\ Len(user_data.bytes) > 0
    THEN Slice(Ljust(user_data.bytes, InblobSize, 0), 0, InblobSize)
    ELSE [k \in 1..InblobSize |-> 0]

\* base64.b64encode(quote).decode(): text that decodes to the bytes
B64Encode(b) == [valid |-> TRUE, bytes |-> b]

Outblobs == {QuoteBytes(0, 1, 0), QuoteBytes(MinQuoteSize, 1, 0)}

QuoteAt(at) == fn = [name |-> "generate_tdx_quote", at |-> at]

InitQuote ==
    /\ MainIdle
    /\ fn = [name |-> "generate_tdx_quote", at |-> "called"]
    /\ arg \in UserDataArgs
    /\ ret = <<>>
    /\ \E present \in BOOLEAN, others \in SUBSET OtherReports :
         tsm = [present |-> present,
                dirs |-> IF present THEN others ELSE {},
                before |-> IF present THEN others ELSE {},
                created |-> {}, removed |-> {},
                inblob |-> <<>>, outcome |-> "none"]

\* launcher.py:169-173
QuoteCheckTsm ==
    /\ QuoteAt("called")
    /\ IF ~tsm.present
       THEN /\ fn' = [fn EXCEPT !.at = "raised"]
            /\ ret' = Exception("TDX not available")
       ELSE /\ fn' = [fn EXCEPT !.at = "mkdir"]
            /\ ret' = ret
    /\ UNCHANGED <<mainVars, arg, tsm>>

\* launcher.py:176
QuoteMkdir ==
    /\ QuoteAt("mkdir")
    /\ \/ /\ tsm' = [tsm EXCEPT !.dirs = @ \cup {ReportId},
                                !.created = @ \cup {ReportId}]
          /\ fn' = [fn EXCEPT !.at = "inblob"]
       \/ /\ tsm' = [tsm EXCEPT !.outcome = "mkdir failed"]
          /\ fn' = [fn EXCEPT !.at = "finally"]
    /\ UNCHANGED <<mainVars, arg, ret>>

\* launcher.py:179-183
QuoteWriteInblob ==
    /\ QuoteAt("inblob")
    /\ \/ /\ tsm' = [tsm EXCEPT !.inblob = Inblob(arg)]
          /\ fn' = [fn EXCEPT !.at = "outblob"]
       \/ /\ tsm' = [tsm EXCEPT !.outcome = "inblob write failed"]
          /\ fn' = [fn EXCEPT !.at = "finally"]
    /\ UNCHANGED <<mainVars, arg, ret>>

\* launcher.py:185-186
QuoteReadOutblob ==
    /\ QuoteAt("outblob")
    /\ \/ \E q \in Outblobs :
            /\ ret' = B64Encode(q)
            /\ tsm' = [tsm EXCEPT !.outcome = "return"]
       \/ /\ ret' = ret
          /\ tsm' = [tsm EXCEPT !.outcome = "outblob read failed"]
    /\ fn' = [fn EXCEPT !.at = "finally"]
    /\ UNCHANGED <<mainVars, arg>>

\* mutant of QuoteFinally: the directory is removed only after a success
QuoteFinallyOnSuccess ==
    /\ QuoteAt("finally")
    /\ IF ReportId \in tsm.dirs /\ tsm.outcome = "return"
       THEN tsm' = [tsm EXCEPT !.dirs = @ \ {ReportId},
                               !.removed = @ \cup {ReportId}]
       ELSE tsm' = tsm
    /\ IF tsm.outcome = "return"
       THEN /\ fn' = [fn EXCEPT !.at = "returned"]
            /\ ret' = ret
       ELSE /\ fn' = [fn EXCEPT !.at = "raised"]
            /\ ret' = Exception("OSError")
    /\ UNCHANGED <<mainVars, arg>>

\* launcher.py:187-189, then the return or the exception leaves the function
QuoteFinally ==
    /\ QuoteAt("finally")
    /\ IF ReportId \in tsm.dirs
       THEN tsm' = [tsm EXCEPT !.dirs = @ \ {ReportId},
                               !.removed = @ \cup {ReportId}]
       ELSE tsm' = tsm
    /\ IF tsm.outcome = "return"
       THEN /\ fn' = [fn EXCEPT !.at = "returned"]
            /\ ret' = ret
       ELSE /\ fn' = [fn EXCEPT !.at = "raised"]
            /\ ret' = Exception("OSError")
    /\ UNCHANGED <<mainVars, arg>>

NextQuote ==
    \/ QuoteCheckTsm
    \/ QuoteMkdir
    \/ QuoteWriteInblob
    \/ QuoteReadOutblob
    \/ QuoteFinally

SpecQuote == InitQuote /\ [][NextQuote]_vars

QuoteLeft == fn.name = "generate_tdx_quote" /\ fn.at \in {"returned", "raised"}

\* C18: when the invocation returns or raises, the report directory it
\* created no longer exists, whichever step failed or none, and the other
\* report directories are as they were; with the interface absent it
\* raises RuntimeError having created and removed nothing; it returns a
\* quote only after having created its directory and written the inblob.
C18_ScopedRelease ==
    QuoteLeft =>
      /\ tsm.created \cap tsm.dirs = {}
      /\ tsm.dirs = tsm.before
      /\ tsm.removed = tsm.created
      /\ ~tsm.present =>
           /\ fn.at = "raised"
           /\ ret = Exception("TDX not available")
           /\ tsm.created = {}
           /\ tsm.removed = {}
      /\ fn.at = "returned" =>
           /\ tsm.present
           /\ tsm.created = {ReportId}
           /\ Len(tsm.inblob) = InblobSize

C18_Witness ==
    /\ QuoteAt("raised")
    /\ tsm.present
    /\ tsm.outcome = "outblob read failed"
    /\ tsm.created = {ReportId}
    /\ ReportId \notin tsm.dirs
    /\ tsm.before = OtherReports

----------------------------------------------------------------------------
(* suspension points and termination, launcher.py:60-69, 137-156, 391-413 *)

ReadyOrError ==
    \/ "ready" \in Range(statusFile)
    \/ pc = "exit" /\ exitCode = <<1>>

\* wait_for_config polling for a config.json that is not there
AwaitingConfig == pc = "wait_config" /\ ~configPresent

====
